---- MODULE Spec2Model ----
(***************************************************************************)
(* GMR-1 AMBE vocoder, internal API (src/codec/ambe.c): the per-frame      *)
(* decode orchestration.  One decoder session (struct ambe_decoder) per    *)
(* voice channel; every public entry point is one atomic action.           *)
(*                                                                         *)
(* Numbers.  The C code works on floats; the model uses fixed point:       *)
(*   f0   in units of 1/F0Den cycles per sample,                           *)
(*   w0   in units of 1e-6 rad per sample,                                 *)
(*   Ml   in units of 1e-4.                                                *)
(* The collaborators that are not part of ambe.c (frame unpacking, the     *)
(* parameter decoder, mbelib's enhancement / synthesis, the tone decoder)  *)
(* are modelled by their call contract: what they are handed is recorded   *)
(* in the call log, what they hand back is drawn from small sets.          *)
(***************************************************************************)
EXTENDS Integers, Naturals, Sequences, FiniteSets, TLC

VARIABLES
    dec,        \* [Sessions -> struct ambe_decoder]: sf_prev, mp_prev
    audio,      \* the caller's output buffer handed to the last call
    op,         \* the last call: entry point, session, arguments
    ret,        \* the last call's return value
    path,       \* the execution path the last call took
    calls,      \* the collaborator calls the last call made, in order
    cls,        \* the last two classifications (pure-function harness)
    conv        \* a subframe and its conversion (pure-function harness)

vars == <<dec, audio, op, ret, path, calls, cls, conv>>

----------------------------------------------------------------------------
(* Program constants *)

\* errno.h EINVAL, returned negated by the dispatcher's fall-through
EINVAL == 22

\* a frame is 10 bytes = 80 bits
FrameLen == 10

\* N, the number of samples to produce, is documented as 152..168
NMin == 152

NMax == 168

\* the Silence path clears a fixed 160 samples
SilenceLen == 160

\* the second synthesis call writes from audio+80
SubframeOffset == 80

\* the "quality" argument of both synthesis calls
UvQuality == 2

\* mask and patterns of the frame classifier
ClassMask == 252

TonePattern == 252

SilencePattern == 248

AMBE_SPEECH == "AMBE_SPEECH"

AMBE_SILENCE == "AMBE_SILENCE"

AMBE_TONE == "AMBE_TONE"

FrameKinds == {AMBE_SPEECH, AMBE_SILENCE, AMBE_TONE}

----------------------------------------------------------------------------
(* Bounds of the model *)

\* number of distinct opaque synthesis states mbelib may leave behind
MaxSynth == 2

\* size of the modelled Mlog array / largest spectral order L
MaxL == 3

\* the sessions (voice channels) of the model
Sessions == {"chA"}

\* first bytes of the frames the decode entry point is driven with: one
\* per frame kind
FirstBytes == {0, 248, 252}

\* values of the remaining nine bytes of a frame
FillBytes == {0, 252}

\* the fill byte of the frames the decode entry point is driven with
DecodeFill == {252}

Bytes == 0 .. 255

NRange == NMin .. NMax

----------------------------------------------------------------------------
(* Fixed-point arithmetic *)

\* f0 is held as an integer number of 1/F0Den cycles per sample
F0Den == 16 * 100

\* 2*pi in units of 1e-6
TwoPiMicro == 6283185

\* Ml is held in units of 1/MagScale
MagScale == 100 * 100

\* an IEEE infinity (0.2046f / sqrtf(0.0f))
FloatInf == MagScale * MagScale

RECURSIVE BitAnd(_, _)
BitAnd(a, b) ==
    IF a = 0 \/ b = 0 THEN 0
    ELSE (a % 2) * (b % 2) + 2 * BitAnd(a \div 2, b \div 2)

RECURSIVE SqrtSearch(_, _, _)
SqrtSearch(x, lo, hi) ==
    \* largest r in lo..hi with r*r <= x  (lo*lo <= x < (hi+1)^2)
    IF lo = hi THEN lo
    ELSE LET mid == (lo + hi + 1) \div 2
         IN  IF mid * mid <= x THEN SqrtSearch(x, mid, hi)
                               ELSE SqrtSearch(x, lo, mid - 1)

\* sqrtf of a value in 1e-6 units, in 1e-3 units
SqrtMicro(x) == SqrtSearch(x, 0, 4000)

\* powf(2.0, m) in units of 1/MagScale
Pow2Fix(m) == IF m >= 0 THEN (2 ^ m) * MagScale ELSE MagScale \div (2 ^ (0 - m))

\* product of two magnitudes in units of 1/MagScale
MulFix(a, b) ==
    IF a = FloatInf \/ b = FloatInf THEN FloatInf ELSE (a * b) \div MagScale

----------------------------------------------------------------------------
(* Frames and their classification *)

\* a 10-byte frame: first byte b, the other nine bytes all `fill`
MkFrame(b, fill) == [i \in 0 .. FrameLen - 1 |-> IF i = 0 THEN b ELSE fill]

Frames == {MkFrame(b, f) : b \in FirstBytes, f \in DecodeFill}

AllFrames == {MkFrame(b, f) : b \in Bytes, f \in FillBytes}

\* mutant: the classifier looks at the second byte
ambe_classify_frame_byte1(frame) ==
    LET x == BitAnd(frame[1], ClassMask)
    IN  IF x = TonePattern THEN AMBE_TONE
        ELSE IF x = SilencePattern THEN AMBE_SILENCE
        ELSE AMBE_SPEECH

\* mutant: the classifier masks only the top 5 bits
ambe_classify_frame_mask5(frame) ==
    LET x == BitAnd(frame[0], SilencePattern)
    IN  IF x = TonePattern THEN AMBE_TONE
        ELSE IF x = SilencePattern THEN AMBE_SILENCE
        ELSE AMBE_SPEECH

\* switch (frame[0] & 0xfc) { case 0xfc: TONE; case 0xf8: SILENCE; default: SPEECH }
ambe_classify_frame(frame) ==
    LET x == BitAnd(frame[0], ClassMask)
    IN  IF x = TonePattern THEN AMBE_TONE
        ELSE IF x = SilencePattern THEN AMBE_SILENCE
        ELSE AMBE_SPEECH

----------------------------------------------------------------------------
(* Subframes and mbelib parameters *)

\* length of struct ambe_subframe's v_uv[] array
NumBands == 8

\* a decoded subframe: voicing mask vmask (bit j = v_uv[j]), Mlog[i] = mbase+i-1
MkSubframe(f0n, L, vmask, mbase) ==
    [f0   |-> f0n,
     L    |-> L,
     v_uv |-> [j \in 0 .. NumBands - 1 |-> (vmask \div (2 ^ j)) % 2],
     Mlog |-> [i \in 0 .. MaxL - 1 |-> mbase + i - 1]]

\* memset(.., 0x00, ..) of a struct ambe_subframe
ZeroSubframe ==
    [f0   |-> 0,
     L    |-> 0,
     v_uv |-> [j \in 0 .. NumBands - 1 |-> 0],
     Mlog |-> [i \in 0 .. MaxL - 1 |-> 0]]

\* the subframes the parameter decoder may produce
SubframeSet == {MkSubframe(100, MaxL, 5, 0), MkSubframe(50, 2, 0, 1)}

\* a subframe whose fundamental frequency was left unset (zero)
UnsetF0Subframe == MkSubframe(0, 1, 0, 1)

\* what a parameter decoder that does not validate f0 may produce
RawSubframeSet == SubframeSet \cup {UnsetF0Subframe}

\* mbe_initMbeParms: mbelib's defaults (w0 = 0.09378, L = 30, all-zero
\* magnitudes and voicing), synthesis state 0 = the library's initial phases
mbe_initMbeParms ==
    [w0  |-> 93780,
     L   |-> 30,
     Vl  |-> [i \in 1 .. 30 |-> 0],
     Ml  |-> [i \in 1 .. 30 |-> 0],
     enh |-> FALSE,
     st  |-> 0]

\* unvc = 0.2046f / sqrtf(w0), in units of 1/MagScale
Unvc(w0) ==
    LET r == SqrtMicro(w0)
    IN  IF r = 0 THEN FloatInf ELSE (2046 * 1000) \div r

\* mutant: the band index is taken from i instead of i-1
band_index_from1(sf, i) == (i * 16 * sf.f0) \div F0Den

\* int j = (int)((i-1) * 16.0f * sf->f0)
band_index(sf, i) == ((i - 1) * 16 * sf.f0) \div F0Den

\* sf->v_uv[j]; a j past the array reads whatever lies there (oob)
read_v_uv(sf, j, oob) == IF j \in DOMAIN sf.v_uv THEN sf.v_uv[j] ELSE oob

\* mutant: the correction is applied to the voiced harmonics
harmonic_Ml_inverted(sf, i, vl, unvc) ==
    LET base == Pow2Fix(sf.Mlog[i - 1]) \div 6
    IN  IF vl # 0 THEN MulFix(base, unvc) ELSE base

\* mp->Ml[i] = powf(2.0, sf->Mlog[i-1]) / 6.0f; if (!mp->Vl[i]) mp->Ml[i] *= unvc
harmonic_Ml(sf, i, vl, unvc) ==
    LET base == Pow2Fix(sf.Mlog[i - 1]) \div 6
    IN  IF vl = 0 THEN MulFix(base, unvc) ELSE base

\* ambe_subframe_to_mbelib, reads past v_uv[] yielding oob
ambe_subframe_to_mbelib_at(sf, oob) ==
    LET w0   == (sf.f0 * TwoPiMicro) \div F0Den
        unvc == Unvc(w0)
        Vl   == [i \in 1 .. sf.L |-> read_v_uv(sf, band_index(sf, i), oob)]
        Ml   == [i \in 1 .. sf.L |-> harmonic_Ml(sf, i, Vl[i], unvc)]
    IN  [w0 |-> w0, L |-> sf.L, Vl |-> Vl, Ml |-> Ml, enh |-> FALSE, st |-> 0]

\* ambe_subframe_to_mbelib: the mbe_parms filled in from subframe sf (for
\* subframes whose band indices all lie inside v_uv[])
ambe_subframe_to_mbelib(sf) == ambe_subframe_to_mbelib_at(sf, 0)

\* mbe_spectralAmpEnhance(&mp): rewrites the magnitudes in place
mbe_spectralAmpEnhance(mp) == [mp EXCEPT !.enh = TRUE]

\* mbe_moveMbeParms(cur, prev): *prev = *cur
mbe_moveMbeParms(cur) == cur

\* the synthesis state (phases) mbe_synthesizeSpeech leaves in cur_mp: a
\* function of the predecessor's state and of the current parameters,
\* folded into 0 .. MaxSynth
SynthState(cur, prev) == (prev.st + cur.L + 1) % (MaxSynth + 1)

\* mbe_synthesizeSpeech's effect on *cur_mp
mbe_synthesizeSpeech_parms(cur, prev) == [cur EXCEPT !.st = SynthState(cur, prev)]

----------------------------------------------------------------------------
(* The caller's output buffer *)

\* The buffer is held as the list of block writes the call made into it,
\* oldest first; Sample gives the resulting content.  A sample is "stale"
\* (not written by the call), "zero" (the value 0), or names the
\* collaborator call that produced it.
FreshAudio == <<>>

\* indices of the caller's memory that are inspected: audio[0 .. AudioCap-1]
AudioCap == 2 * NMax

\* memset / block write of `count` samples of value v from index off
WriteBlock(buf, off, v, count) == Append(buf, [off |-> off, len |-> count, val |-> v])

Sample(buf, i) ==
    LET hits == {k \in 1 .. Len(buf) : buf[k].off <= i /\ i < buf[k].off + buf[k].len}
    IN  IF hits = {} THEN "stale"
        ELSE buf[CHOOSE k \in hits : \A m \in hits : m <= k].val

\* number of samples one mbe_synthesizeSpeech call produces (half a block)
SynthLen == 80

\* mbe_synthesizeSpeech's effect on the output buffer, written from aout
mbe_synthesizeSpeech_audio(buf, aout, tag) == WriteBlock(buf, aout, tag, SynthLen)

\* the indices the call wrote
Written(buf) == {i \in 0 .. AudioCap - 1 : Sample(buf, i) # "stale"}

----------------------------------------------------------------------------
(* Decoder state *)

\* memset(.., 0x00, ..) of an mbe_parms
ZeroMbeParms ==
    [w0 |-> 0, L |-> 0, Vl |-> <<>>, Ml |-> <<>>, enh |-> FALSE, st |-> 0]

\* mutant: the library default is set first and then zeroed away
ambe_decode_init_swapped ==
    LET inited == [sf_prev |-> ZeroSubframe, mp_prev |-> mbe_initMbeParms]
    IN  [inited EXCEPT !.sf_prev = ZeroSubframe, !.mp_prev = ZeroMbeParms]

\* ambe_decode_init: memset(dec, 0), then mbe_initMbeParms(&dec->mp_prev)
ambe_decode_init ==
    LET zeroed == [sf_prev |-> ZeroSubframe, mp_prev |-> ZeroMbeParms]
    IN  [zeroed EXCEPT !.mp_prev = mbe_initMbeParms]

----------------------------------------------------------------------------
(* Collaborators outside ambe.c, by call contract *)

\* what the collaborators hand back during one ambe_decode_frame call:
\*   sf0, sf1   the two subframes ambe_frame_decode_params produces
\*   params_rv  the status ambe_frame_decode_params reports
\*   tone_rv    the status ambe_decode_tone returns
NoEnv == [sf0 |-> ZeroSubframe, sf1 |-> ZeroSubframe, params_rv |-> 0, tone_rv |-> 0]

EnvsFor(kind) ==
    IF kind = AMBE_SPEECH
    THEN {[NoEnv EXCEPT !.sf0 = a, !.sf1 = b, !.params_rv = r] :
              a \in SubframeSet, b \in SubframeSet, r \in {0, 0 - EINVAL}}
    ELSE IF kind = AMBE_TONE
    THEN {[NoEnv EXCEPT !.tone_rv = r] : r \in {0, 0 - EINVAL}}
    ELSE {NoEnv}

\* the same, with the decoder's subframes drawn from sfs and its status from rvs
EnvsOver(kind, sfs, rvs) ==
    IF kind = AMBE_SPEECH
    THEN {[NoEnv EXCEPT !.sf0 = a, !.sf1 = b, !.params_rv = r] :
              a \in sfs, b \in sfs, r \in rvs}
    ELSE IF kind = AMBE_TONE
    THEN {[NoEnv EXCEPT !.tone_rv = r] : r \in {0, 0 - EINVAL}}
    ELSE {NoEnv}

\* ambe_frame_unpack_raw(&rp, frame): the raw parameters are the frame's bits
ambe_frame_unpack_raw(frame) == [bits |-> frame]

\* ambe_decode_tone(dec, audio, N, frame): N samples of tone on success;
\* leaves sf_prev and mp_prev alone
ambe_decode_tone(d, buf, N, frame, env) ==
    [dec   |-> d,
     audio |-> IF env.tone_rv = 0 THEN WriteBlock(buf, 0, "tone", N) ELSE buf,
     ret   |-> env.tone_rv,
     path  |-> "tone",
     calls |-> <<[fn   |-> "ambe_decode_tone",
                  args |-> [N |-> N, frame |-> frame],
                  rv   |-> env.tone_rv,
                  out  |-> <<>>]>>]

----------------------------------------------------------------------------
(* ambe.c *)

\* the arguments of ambe_frame_decode_params(sf, &dec->sf_prev, &rp)
speech_params_args(d, rp, bad) == [sf_prev |-> d.sf_prev, rp |-> rp]

\* mutant: the first synthesis call is handed a fresh default state
speech_synth0_prev_default(d, mp0) == mbe_initMbeParms

\* predecessor of the first synthesis call: &dec->mp_prev
speech_synth0_prev(d, mp0) == d.mp_prev

\* mutant: the second synthesis call is handed the session's old state
speech_synth1_prev_session(d, mp0s) == d.mp_prev

\* predecessor of the second synthesis call: &mp[0]
speech_synth1_prev(d, mp0s) == mp0s

\* mutant: the first subframe is saved instead of the second
speech_commit_first(d, sf0, sf1, mp0s, mp1s) ==
    [sf_prev |-> sf0, mp_prev |-> mbe_moveMbeParms(mp0s)]

\* mbe_moveMbeParms(&mp[1], &dec->mp_prev); memcpy(&dec->sf_prev, &sf[1], ..)
speech_commit(d, sf0, sf1, mp0s, mp1s) ==
    [sf_prev |-> sf1, mp_prev |-> mbe_moveMbeParms(mp1s)]

\* ambe_decode_speech(dec, audio, N, frame, bad)
ambe_decode_speech(d, buf, N, frame, bad, env) ==
    LET rp   == ambe_frame_unpack_raw(frame)
        \* ambe_frame_decode_params(sf, &dec->sf_prev, &rp)
        sf0  == env.sf0
        sf1  == env.sf1
        \* convert, then enhance, both subframes
        mp0  == mbe_spectralAmpEnhance(ambe_subframe_to_mbelib(sf0))
        mp1  == mbe_spectralAmpEnhance(ambe_subframe_to_mbelib(sf1))
        \* mbe_synthesizeSpeech(audio, &mp[0], &dec->mp_prev, 2)
        pr0  == speech_synth0_prev(d, mp0)
        mp0s == mbe_synthesizeSpeech_parms(mp0, pr0)
        buf0 == mbe_synthesizeSpeech_audio(buf, 0, "synth0")
        \* mbe_synthesizeSpeech(audio+80, &mp[1], &mp[0], 2)
        pr1  == speech_synth1_prev(d, mp0s)
        mp1s == mbe_synthesizeSpeech_parms(mp1, pr1)
        buf1 == mbe_synthesizeSpeech_audio(buf0, SubframeOffset, "synth1")
    IN  [dec   |-> speech_commit(d, sf0, sf1, mp0s, mp1s),
         audio |-> buf1,
         ret   |-> 0,
         path  |-> "speech",
         calls |-> <<[fn   |-> "ambe_frame_unpack_raw",
                      args |-> [frame |-> frame],
                      rv   |-> 0,
                      out  |-> rp],
                     [fn   |-> "ambe_frame_decode_params",
                      args |-> speech_params_args(d, rp, bad),
                      rv   |-> env.params_rv,
                      out  |-> <<sf0, sf1>>],
                     [fn   |-> "mbe_synthesizeSpeech",
                      args |-> [aout |-> 0, cur |-> mp0, prev |-> pr0,
                                uvquality |-> UvQuality],
                      rv   |-> 0,
                      out  |-> mp0s],
                     [fn   |-> "mbe_synthesizeSpeech",
                      args |-> [aout |-> SubframeOffset, cur |-> mp1, prev |-> pr1,
                                uvquality |-> UvQuality],
                      rv   |-> 0,
                      out  |-> mp1s]>>]

\* mutant: the Silence path re-initialises the session
ambe_decode_silence_reset(d, buf, N) ==
    [dec   |-> ambe_decode_init,
     audio |-> WriteBlock(buf, 0, "zero", SilenceLen),
     ret   |-> 0,
     path  |-> "silence",
     calls |-> <<>>]

\* case AMBE_SILENCE: memset(audio, 0, 160*sizeof(int16_t)); return 0;
ambe_decode_silence(d, buf, N) ==
    [dec   |-> d,
     audio |-> WriteBlock(buf, 0, "zero", SilenceLen),
     ret   |-> 0,
     path  |-> "silence",
     calls |-> <<>>]

\* mutant: the Tone case clears the session before delegating
ambe_decode_frame_tone_reset(d, buf, N, frame, bad, env) ==
    LET kind == ambe_classify_frame(frame)
    IN  IF kind = AMBE_SPEECH THEN ambe_decode_speech(d, buf, N, frame, bad, env)
        ELSE IF kind = AMBE_SILENCE THEN ambe_decode_silence(d, buf, N)
        ELSE ambe_decode_tone(ambe_decode_init, buf, N, frame, env)

\* mutant: the Tone case is missing from the switch
ambe_decode_frame_no_tone(d, buf, N, frame, bad, env) ==
    LET kind == ambe_classify_frame(frame)
    IN  IF kind = AMBE_SPEECH THEN ambe_decode_speech(d, buf, N, frame, bad, env)
        ELSE IF kind = AMBE_SILENCE THEN ambe_decode_silence(d, buf, N)
        ELSE [dec |-> d, audio |-> buf, ret |-> 0 - EINVAL, path |-> "einval",
              calls |-> <<>>]

\* ambe_decode_frame(dec, audio, N, frame, bad)
ambe_decode_frame(d, buf, N, frame, bad, env) ==
    LET kind == ambe_classify_frame(frame)
    IN  IF kind = AMBE_SPEECH THEN ambe_decode_speech(d, buf, N, frame, bad, env)
        ELSE IF kind = AMBE_SILENCE THEN ambe_decode_silence(d, buf, N)
        ELSE IF kind = AMBE_TONE THEN ambe_decode_tone(d, buf, N, frame, env)
        ELSE [dec |-> d, audio |-> buf, ret |-> 0 - EINVAL, path |-> "einval",
              calls |-> <<>>]

\* mutant: DTX clears the fixed block of the Silence path
ambe_decode_dtx_fixed(d, buf, N) ==
    [dec   |-> d,
     audio |-> WriteBlock(buf, 0, "zero", SilenceLen),
     ret   |-> 0,
     path  |-> "dtx",
     calls |-> <<>>]

\* mutant: DTX re-initialises the decoder
ambe_decode_dtx_reset(d, buf, N) ==
    [dec   |-> ambe_decode_init,
     audio |-> WriteBlock(buf, 0, "zero", N),
     ret   |-> 0,
     path  |-> "dtx",
     calls |-> <<>>]

\* ambe_decode_dtx(dec, audio, N): memset(audio, 0x00, sizeof(int16_t) * N)
ambe_decode_dtx(d, buf, N) ==
    [dec   |-> d,
     audio |-> WriteBlock(buf, 0, "zero", N),
     ret   |-> 0,
     path  |-> "dtx",
     calls |-> <<>>]

----------------------------------------------------------------------------
(* The state machine: one action per entry point *)

NoFrame == MkFrame(0, 0)

NoOp == [fn |-> "none", s |-> "none", N |-> 0, frame |-> NoFrame, bad |-> 0]

NoCls == [frame |-> NoFrame, kind |-> "none"]

\* the converter harness before anything is converted
NoConv == [state |-> "none"]

Init ==
    /\ dec = [s \in Sessions |-> ambe_decode_init]
    /\ audio = FreshAudio
    /\ op = NoOp
    /\ ret = 0
    /\ path = "none"
    /\ calls = <<>>
    /\ cls = <<NoCls, NoCls>>
    /\ conv = NoConv

\* mutant: one decoder state shared by all sessions (a static struct)
Commit_shared(s, r) ==
    /\ dec' = [t \in DOMAIN dec |-> r.dec]
    /\ audio' = r.audio
    /\ ret' = r.ret
    /\ path' = r.path
    /\ calls' = r.calls

\* the state after a call on session s that produced result r
Commit(s, r) ==
    /\ dec' = [dec EXCEPT ![s] = r.dec]
    /\ audio' = r.audio
    /\ ret' = r.ret
    /\ path' = r.path
    /\ calls' = r.calls

DecodeInit(s) ==
    /\ dec' = [dec EXCEPT ![s] = ambe_decode_init]
    /\ audio' = FreshAudio
    /\ op' = [NoOp EXCEPT !.fn = "ambe_decode_init", !.s = s]
    /\ ret' = 0
    /\ path' = "init"
    /\ calls' = <<>>
    /\ UNCHANGED <<cls, conv>>

DecodeFrame(s) ==
    \E N \in NRange, frame \in Frames, bad \in {0, 1} :
      \E env \in EnvsFor(ambe_classify_frame(frame)) :
        /\ Commit(s, ambe_decode_frame(dec[s], FreshAudio, N, frame, bad, env))
        /\ op' = [fn |-> "ambe_decode_frame", s |-> s, N |-> N,
                  frame |-> frame, bad |-> bad]
        /\ UNCHANGED <<cls, conv>>

DecodeDtx(s) ==
    \E N \in NRange :
        /\ Commit(s, ambe_decode_dtx(dec[s], FreshAudio, N))
        /\ op' = [NoOp EXCEPT !.fn = "ambe_decode_dtx", !.s = s, !.N = N]
        /\ UNCHANGED <<cls, conv>>

\* ambe_decode_frame on session s, with N drawn from Ns, the frame from Fs,
\* the bad-frame flag from Bs, the decoder's subframes from sfs and its
\* status from rvs
DecodeFrameIn(s, Ns, Fs, Bs, sfs, rvs) ==
    \E N \in Ns, frame \in Fs, bad \in Bs :
      \E env \in EnvsOver(ambe_classify_frame(frame), sfs, rvs) :
        /\ Commit(s, ambe_decode_frame(dec[s], FreshAudio, N, frame, bad, env))
        /\ op' = [fn |-> "ambe_decode_frame", s |-> s, N |-> N,
                  frame |-> frame, bad |-> bad]
        /\ UNCHANGED <<cls, conv>>

\* ambe_decode_dtx on session s, with N drawn from Ns
DecodeDtxIn(s, Ns) ==
    \E N \in Ns :
        /\ Commit(s, ambe_decode_dtx(dec[s], FreshAudio, N))
        /\ op' = [NoOp EXCEPT !.fn = "ambe_decode_dtx", !.s = s, !.N = N]
        /\ UNCHANGED <<cls, conv>>

Next ==
    \E s \in Sessions :
        \/ DecodeInit(s)
        \/ DecodeFrame(s)
        \/ DecodeDtx(s)

Spec == Init /\ [][Next]_vars

----------------------------------------------------------------------------
(* Two voice channels, each with its own struct ambe_decoder, driven in    *)
(* any interleaving; N takes the two boundary values.                      *)

Channels == {"chA", "chB"}

BoundaryN == {NMin, NMax}

InitTwo ==
    /\ dec = [s \in Channels |-> ambe_decode_init]
    /\ audio = FreshAudio
    /\ op = NoOp
    /\ ret = 0
    /\ path = "none"
    /\ calls = <<>>
    /\ cls = <<NoCls, NoCls>>
    /\ conv = NoConv

NextTwo ==
    \E s \in Channels :
        \/ DecodeInit(s)
        \/ DecodeFrameIn(s, BoundaryN, Frames, {0, 1}, SubframeSet, {0})
        \/ DecodeDtxIn(s, BoundaryN)

SpecTwo == InitTwo /\ [][NextTwo]_vars

----------------------------------------------------------------------------
(* One session whose parameter decoder may hand back a subframe with an    *)
(* unset fundamental frequency; N is the nominal block length.             *)

NominalN == {SilenceLen}

NextRaw ==
    \E s \in Sessions :
        \/ DecodeInit(s)
        \/ DecodeFrameIn(s, NominalN, Frames, {0, 1}, RawSubframeSet, {0, 0 - EINVAL})
        \/ DecodeDtxIn(s, NominalN)

SpecRaw == Init /\ [][NextRaw]_vars

----------------------------------------------------------------------------
(* One session driven with frames of every first byte.                     *)

ByteFrames == {MkFrame(b, f) : b \in Bytes, f \in DecodeFill}

NextBytes ==
    \E s \in Sessions :
        \/ DecodeInit(s)
        \/ DecodeFrameIn(s, NominalN, ByteFrames, {0}, {MkSubframe(100, MaxL, 5, 0)}, {0})
        \/ DecodeDtxIn(s, NominalN)

SpecBytes == Init /\ [][NextBytes]_vars

----------------------------------------------------------------------------
(* The frame classifier as a pure function: the inputs are drawn by the    *)
(* initial state, one action applies the classifier to both frames.        *)

\* a decoder state as a successfully decoded Speech frame leaves it
SpokenDecoder ==
    ambe_decode_speech(ambe_decode_init, FreshAudio, SilenceLen, NoFrame, 0,
        [NoEnv EXCEPT !.sf0 = MkSubframe(100, MaxL, 5, 0),
                      !.sf1 = MkSubframe(50, 2, 0, 1)]).dec

\* the decoder states the classifier is run under
DecoderStates == {ambe_decode_init, SpokenDecoder}

\* pairs of frames whose first bytes agree in their top 6 bits, each with
\* any fill, under a fresh or a used decoder
InitClassify ==
    /\ dec \in [Sessions -> DecoderStates]
    /\ audio = FreshAudio
    /\ op = NoOp
    /\ ret = 0
    /\ path = "none"
    /\ calls = <<>>
    /\ conv = NoConv
    /\ \E b \in Bytes, low \in 0 .. 3, f1 \in FillBytes, f2 \in FillBytes :
          cls = <<[frame |-> MkFrame(b, f1), kind |-> "none"],
                  [frame |-> MkFrame((b \div 4) * 4 + low, f2), kind |-> "none"]>>

\* classify the first frame; the sessions then move to any decoder state
ClassifyFirst ==
    /\ cls[1].kind = "none"
    /\ cls' = [cls EXCEPT ![1].kind = ambe_classify_frame(cls[1].frame)]
    /\ dec' \in [Sessions -> DecoderStates]
    /\ UNCHANGED <<audio, op, ret, path, calls, conv>>

\* classify the second frame
ClassifySecond ==
    /\ cls[1].kind # "none"
    /\ cls[2].kind = "none"
    /\ cls' = [cls EXCEPT ![2].kind = ambe_classify_frame(cls[2].frame)]
    /\ UNCHANGED <<dec, audio, op, ret, path, calls, conv>>

NextClassify == ClassifyFirst \/ ClassifySecond

SpecClassify == InitClassify /\ [][NextClassify]_vars

----------------------------------------------------------------------------
(* Properties *)

\* the frame kind the top 6 bits of a first byte stand for
KindOfByte(b) ==
    IF b \div 4 = 63 THEN AMBE_TONE
    ELSE IF b \div 4 = 62 THEN AMBE_SILENCE
    ELSE AMBE_SPEECH

IsFrameCall == op.fn = "ambe_decode_frame"

\* the buffer holds exactly n samples written by the call, all of value v
ExactlyWritten(buf, n, v) ==
    /\ Written(buf) = 0 .. n - 1
    /\ \A i \in 0 .. n - 1 : Sample(buf, i) = v

\* C1: a session's sf_prev / mp_prev are the init values after init, the
\* second subframe and the state left by the second-half synthesis after a
\* Speech frame, and are left as they were by every other call; Silence and
\* Tone frames hand them to no parameter-decode or synthesis call.
C1_StateIsLastSpeech ==
    [][\A s \in Sessions :
         IF op'.s = s /\ op'.fn = "ambe_decode_init"
         THEN dec'[s] = [sf_prev |-> ZeroSubframe, mp_prev |-> mbe_initMbeParms]
         ELSE IF op'.s = s /\ op'.fn = "ambe_decode_frame"
                 /\ KindOfByte(op'.frame[0]) = AMBE_SPEECH
         THEN /\ Len(calls') = 4
              /\ dec'[s].sf_prev = calls'[2].out[2]
              /\ calls'[4].args.aout = SubframeOffset
              /\ calls'[4].args.cur =
                     mbe_spectralAmpEnhance(ambe_subframe_to_mbelib(calls'[2].out[2]))
              /\ dec'[s].mp_prev = calls'[4].out
         ELSE /\ dec'[s] = dec[s]
              /\ \A k \in 1 .. Len(calls') :
                     calls'[k].fn \notin {"ambe_frame_decode_params", "mbe_synthesizeSpeech"}
      ]_vars

\* C1 witness: a Tone frame decoded on a session that holds a Speech frame's state
C1_Witness ==
    /\ IsFrameCall
    /\ path = "tone"
    /\ dec[op.s].sf_prev \in SubframeSet
    /\ dec[op.s].mp_prev.enh

\* C2: of two Speech frames decoded one after the other on a session, the
\* second frame's first synthesis call gets as predecessor the state the
\* first frame's second synthesis call produced.
C2_SpeechChaining ==
    [][(path = "speech" /\ path' = "speech" /\ op'.s = op.s)
         => /\ calls'[3].args.aout = 0
            /\ calls'[3].args.prev = calls[4].out
            /\ calls'[3].args.prev = dec[op.s].mp_prev
      ]_vars

\* C2 witness: a Speech frame whose first synthesis call was handed the
\* state a previous Speech frame left
C2_Witness ==
    /\ path = "speech"
    /\ calls[3].args.aout = 0
    /\ calls[3].args.prev.enh

\* C3 (as claimed): a Silence frame writes exactly N zero samples
C3_SilenceWritesN == (IsFrameCall /\ path = "silence") => ExactlyWritten(audio, op.N, "zero")

\* C4: a Silence frame leaves every session's sf_prev and mp_prev as they were
C4_SilenceKeepsState ==
    [][(op'.fn = "ambe_decode_frame" /\ KindOfByte(op'.frame[0]) = AMBE_SILENCE)
         => dec' = dec]_vars

\* C4 witness: a Silence frame decoded on a session that holds a Speech frame's state
C4_Witness ==
    /\ IsFrameCall
    /\ path = "silence"
    /\ ret = 0
    /\ dec[op.s].mp_prev.enh

\* C5 (as claimed): every successful ambe_decode_frame call writes exactly
\* the samples 0 .. N-1
C5_FrameWritesN == (IsFrameCall /\ ret = 0) => Written(audio) = 0 .. op.N - 1

\* C6: ambe_decode_dtx returns 0 and writes exactly N samples, all zero
C6_DtxWritesN ==
    op.fn = "ambe_decode_dtx" => (ret = 0 /\ ExactlyWritten(audio, op.N, "zero"))

\* C6 witness: DTX calls at both boundary values of N
C6_Witness ==
    /\ op.fn = "ambe_decode_dtx"
    /\ op.N \in {NMin, NMax}
    /\ Sample(audio, op.N - 1) = "zero"
    /\ Sample(audio, op.N) = "stale"

\* C7 (as claimed): the parameter decoder is handed the caller's bad-frame flag
C7_BadForwarded ==
    (IsFrameCall /\ path = "speech")
        => /\ "bad" \in DOMAIN calls[2].args
           /\ calls[2].args.bad = op.bad

\* C8 (as claimed): a failure a collaborator reports makes ambe_decode_frame
\* return a negative code
C8_FailureSurfaced ==
    (IsFrameCall /\ \E k \in 1 .. Len(calls) : calls[k].rv < 0) => ret < 0

Classified == cls[1].kind # "none" /\ cls[2].kind # "none"

\* C9: the classifier yields one of the three kinds for every frame, and the
\* same kind for frames with equal first byte, whatever the other bytes and
\* the decoder state
C9_ClassifyTotalFirstByte ==
    /\ \A k \in 1 .. 2 : cls[k].kind # "none" => cls[k].kind \in FrameKinds
    /\ (Classified /\ cls[1].frame[0] = cls[2].frame[0]) => cls[1].kind = cls[2].kind

\* C9 witness: two frames with equal first byte and different other bytes,
\* classified under different decoder states
C9_Witness ==
    /\ Classified
    /\ cls[1].frame[0] = cls[2].frame[0]
    /\ cls[1].frame[1] # cls[2].frame[1]
    /\ \E s \in Sessions : dec[s] # ambe_decode_init

\* C10: top 6 bits 111111 give Tone, 111110 give Silence, anything else
\* Speech; the low 2 bits of the first byte do not matter
C10_ClassifyPatterns ==
    /\ \A k \in 1 .. 2 :
          cls[k].kind # "none" => cls[k].kind = KindOfByte(cls[k].frame[0])
    /\ Classified => cls[1].kind = cls[2].kind

\* C10 witness: 0xFC classified Tone next to a frame differing in the low bits
C10_Witness ==
    /\ Classified
    /\ cls[1].frame[0] = 252
    /\ cls[2].frame[0] = 253
    /\ cls[1].kind = AMBE_TONE


\* C11: right after ambe_decode_init the session's sf_prev is all zero and
\* its mp_prev is the synthesis library's default, not the zeroed structure;
\* a Speech frame decoded as the next call on that session is handed exactly
\* that context and returns 0.
C11_InitThenSpeech ==
    [][/\ op'.fn = "ambe_decode_init"
            => /\ dec'[op'.s].sf_prev = ZeroSubframe
               /\ dec'[op'.s].mp_prev = mbe_initMbeParms
               /\ dec'[op'.s].mp_prev # ZeroMbeParms
       /\ (/\ op.fn = "ambe_decode_init"
           /\ op'.fn = "ambe_decode_frame"
           /\ op'.s = op.s
           /\ KindOfByte(op'.frame[0]) = AMBE_SPEECH)
            => /\ ret' = 0
               /\ calls'[2].args.sf_prev = ZeroSubframe
               /\ calls'[3].args.prev = mbe_initMbeParms
      ]_vars

\* C11 witness: a Speech frame decoded on the context ambe_decode_init left
C11_Witness ==
    /\ IsFrameCall
    /\ path = "speech"
    /\ ret = 0
    /\ calls[2].args.sf_prev = ZeroSubframe
    /\ calls[3].args.prev = mbe_initMbeParms


\* C12: a call on one session leaves every other session's sf_prev and
\* mp_prev as they were, and the predecessor context a Speech frame hands to
\* the parameter decoder and to the first synthesis call is that of its own
\* session; so what a session produces does not depend on how its calls are
\* interleaved with another session's.
C12_SessionsIndependent ==
    [][/\ \A s \in DOMAIN dec : s # op'.s => dec'[s] = dec[s]
       /\ path' = "speech"
            => /\ calls'[2].args.sf_prev = dec[op'.s].sf_prev
               /\ calls'[3].args.prev = dec[op'.s].mp_prev
               /\ dec'[op'.s].mp_prev = calls'[4].out
      ]_vars

\* C12 witness: a Speech frame decoded on channel B while both channels
\* hold different Speech state
C12_Witness ==
    /\ DOMAIN dec = Channels
    /\ op.s = "chB"
    /\ path = "speech"
    /\ dec["chA"].mp_prev.enh
    /\ dec["chB"].mp_prev.enh
    /\ dec["chA"] # dec["chB"]
    /\ calls[3].args.prev.enh
    /\ calls[3].args.prev # dec["chA"].mp_prev


\* C13: within one Speech frame the first synthesis call (first half) gets
\* the session's carried-over state as predecessor, the second (second half)
\* gets subframe 0's converted parameters as the first call left them, and
\* the session's state becomes the second call's result only afterwards.
C13_InFrameChaining ==
    [][path' = "speech"
         => /\ calls'[3].fn = "mbe_synthesizeSpeech"
            /\ calls'[3].args.aout = 0
            /\ calls'[3].args.prev = dec[op'.s].mp_prev
            /\ calls'[3].out.w0 = ambe_subframe_to_mbelib(calls'[2].out[1]).w0
            /\ calls'[3].out.L = calls'[2].out[1].L
            /\ calls'[4].fn = "mbe_synthesizeSpeech"
            /\ calls'[4].args.aout = SubframeOffset
            /\ calls'[4].args.prev = calls'[3].out
            /\ dec'[op'.s].mp_prev = calls'[4].out
      ]_vars

\* C13 witness: a Speech frame with two different subframes, decoded on a
\* session that holds an earlier Speech frame's state
C13_Witness ==
    /\ path = "speech"
    /\ calls[2].out[1] # calls[2].out[2]
    /\ calls[3].args.prev.enh
    /\ calls[4].args.prev # calls[3].args.prev
    /\ calls[4].args.prev.L = calls[2].out[1].L


\* C14 (as claimed): a Speech frame for which the parameter decoder yields a
\* subframe with zero f0 is rejected with a negative code before anything
\* is converted or synthesized
C14_ZeroF0Rejected ==
    (/\ IsFrameCall
     /\ path = "speech"
     /\ \E k \in 1 .. 2 : calls[2].out[k].f0 = 0)
        => /\ ret < 0
           /\ Len(calls) = 2


C16_DispatchTotal ==
    IsFrameCall
        => /\ path \in {"speech", "silence", "tone"}
           /\ path = "speech" <=> KindOfByte(op.frame[0]) = AMBE_SPEECH
           /\ path = "silence" <=> KindOfByte(op.frame[0]) = AMBE_SILENCE
           /\ path = "tone" <=> KindOfByte(op.frame[0]) = AMBE_TONE
           /\ path = "speech" <=> (Len(calls) = 4 /\ Sample(audio, 0) = "synth0")
           /\ path = "silence" <=> (Len(calls) = 0 /\ Sample(audio, 0) = "zero")
           /\ path = "tone" <=> (Len(calls) = 1 /\ calls[1].fn = "ambe_decode_tone")
           /\ ret < 0 => (path = "tone" /\ ret = calls[1].rv)

\* C16 witness: first byte 0xFF taking the Tone path, the tone decoder
\* itself reporting -EINVAL
C16_Witness ==
    /\ IsFrameCall
    /\ op.frame[0] = 255
    /\ path = "tone"
    /\ ret = 0 - EINVAL
    /\ calls[1].rv = 0 - EINVAL


----------------------------------------------------------------------------
(* The subframe converter as a pure function: the initial state draws a    *)
(* full-size subframe and the content of the memory past v_uv[]; one       *)
(* action converts it, together with its all-voiced twin.                  *)

\* the largest spectral order (mbe_parms and Mlog[] hold 56 harmonics)
MaxHarmonics == 56

\* a full-size subframe: voicing mask vmask, Mlog values cycling in -1 .. 2
MkWideSubframe(f0n, L, vmask, mbase) ==
    [f0   |-> f0n,
     L    |-> L,
     v_uv |-> [j \in 0 .. NumBands - 1 |-> (vmask \div (2 ^ j)) % 2],
     Mlog |-> [i \in 0 .. MaxHarmonics - 1 |-> ((mbase + i) % 4) - 1]]

\* fundamental frequencies, in 1/F0Den: 0.008125, 0.01, 0.0625, 0.2
ConvF0 == {13, 16, 100, 320}

\* voicing masks: all unvoiced, mixed, all voiced
ConvMasks == {0, 165, 255}

InitConvert ==
    /\ dec = [s \in Sessions |-> ambe_decode_init]
    /\ audio = FreshAudio
    /\ op = NoOp
    /\ ret = 0
    /\ path = "none"
    /\ calls = <<>>
    /\ cls = <<NoCls, NoCls>>
    /\ \E f0n \in ConvF0, L \in 1 .. MaxHarmonics, vmask \in ConvMasks,
          mbase \in 0 .. 1, oob \in 0 .. 1 :
          conv = [state |-> "input",
                  sf    |-> MkWideSubframe(f0n, L, vmask, mbase),
                  oob   |-> oob]

\* ambe_subframe_to_mbelib(&mp, &sf), and the same on the all-voiced twin
Convert ==
    /\ conv.state = "input"
    /\ conv' = [state |-> "done",
                sf    |-> conv.sf,
                oob   |-> conv.oob,
                mp    |-> ambe_subframe_to_mbelib_at(conv.sf, conv.oob),
                mpv   |-> ambe_subframe_to_mbelib_at(
                              [conv.sf EXCEPT !.v_uv = [j \in 0 .. NumBands - 1 |-> 1]], 1),
                idx   |-> [i \in 1 .. conv.sf.L |-> band_index(conv.sf, i)]]
    /\ UNCHANGED <<dec, audio, op, ret, path, calls, cls>>

NextConvert == Convert

SpecConvert == InitConvert /\ [][NextConvert]_vars

Converted == conv.state = "done"

\* C17: the output order is L; a voiced harmonic gets 2^Mlog[i-1] / 6, and
\* a harmonic gets that magnitude times 0.2046 / sqrt(w0) exactly when the
\* voicing flag looked up for it is false.
C17_UnvoicedCorrection ==
    Converted =>
        LET sf   == conv.sf
            mp   == conv.mp
            mpv  == conv.mpv
            unvc == (2046 * 1000) \div SqrtMicro((sf.f0 * TwoPiMicro) \div F0Den)
        IN  /\ mp.L = sf.L
            /\ DOMAIN mp.Ml = 1 .. sf.L
            /\ DOMAIN mp.Vl = 1 .. sf.L
            /\ \A i \in 1 .. sf.L :
                  /\ mpv.Vl[i] = 1
                  /\ mpv.Ml[i] = Pow2Fix(sf.Mlog[i - 1]) \div 6
                  /\ conv.idx[i] \in 0 .. NumBands - 1 => mp.Vl[i] = sf.v_uv[conv.idx[i]]
                  /\ mp.Vl[i] = 0 => mp.Ml[i] = (mpv.Ml[i] * unvc) \div MagScale
                  /\ mp.Vl[i] # 0 => mp.Ml[i] = mpv.Ml[i]

\* C17 witness: one conversion with a voiced and an unvoiced harmonic of the
\* same log-magnitude, and different resulting magnitudes
C17_Witness ==
    /\ Converted
    /\ \E i \in 1 .. conv.sf.L, k \in 1 .. conv.sf.L :
          /\ conv.mp.Vl[i] = 0
          /\ conv.mp.Vl[k] = 1
          /\ conv.sf.Mlog[i - 1] = conv.sf.Mlog[k - 1]
          /\ conv.mp.Ml[k] = conv.mpv.Ml[i]
          /\ conv.mp.Ml[i] # conv.mp.Ml[k]


\* the highest harmonic lies below half the sampling rate: (L-1) * 16 * f0 < 8
BelowNyquist(sf) == (sf.L - 1) * 16 * sf.f0 < NumBands * F0Den

C19_DtxKeepsState ==
    [][/\ op'.fn = "ambe_decode_dtx" => dec' = dec
       /\ (op.fn = "ambe_decode_dtx" /\ path' = "speech" /\ op'.s = op.s)
            => /\ calls'[2].args.sf_prev = dec[op.s].sf_prev
               /\ calls'[3].args.prev = dec[op.s].mp_prev
      ]_vars

\* C19 witness: a DTX call on a session that holds the state of a Speech frame
C19_Witness ==
    /\ op.fn = "ambe_decode_dtx"
    /\ path = "dtx"
    /\ dec[op.s].mp_prev.enh
    /\ dec[op.s].sf_prev \in SubframeSet

====
